---- MODULE Spec2Model ----
(***************************************************************************)
(* kfix (klog-to-logr): the driver of src/main.go, its output handler      *)
(* (handleFix, diff, writeTempFile) and the fix engine it drives.          *)
(*                                                                         *)
(* The driver, the usage text, handleFix, diff, writeTempFile and readFile *)
(* are translated from src/main.go.  The packages importer, fixer and      *)
(* fixes are imported by main.go but their code is not part of src/: the   *)
(* engine (fixer.FixPackage), the loader and the fix units are modelled    *)
(* from sections 3, 4.1 and 7 of the specification.                        *)
(***************************************************************************)
EXTENDS Integers, Sequences, FiniteSets, TLC

\* ------------------------------------------------------------------ bounds
MaxArgs == 2      \* path arguments on the command line: 0..MaxArgs
MaxFiles == 2     \* files of one package: 1..MaxFiles
MaxSites == 2     \* legacy call sites in one file: 0..MaxSites
IterCap == 3      \* the engine's bounded iteration count (spec 4.1 step 1b)

\* ------------------------------------------------------- program constants
ExitUsage == 93   \* os.Exit(93) in usage
ExitError == 1    \* os.Exit(1): Getwd or import failure
ExitAbort == 5    \* os.Exit(5): FixPackage failure
ExitOK == 0       \* os.Exit(0)
Running == 0 - 1  \* exitCode while the process has not exited

VARIABLES
    pc,          \* position of main: "start", "import", "load", "apply", "emit", "exit"
    doDiff,      \* the -diff flag
    nargs,       \* flag.NArg()
    allFixes,    \* the package variable allFixes: a sequence of fix names
    fixes,       \* Fixer.Fixes
    usageCalled, \* usage() has run (and sorted allFixes in place)
    argi,        \* the loop variable i of main, 1-based
    status,      \* per argument: "pending", "fixing", "done", "importfailed", "fixfailed"
    nfiles,      \* number of files of the package being fixed
    filei,       \* index of the file being fixed
    orig,        \* bytes of the current file on disk before the run
    tree,        \* info.AST of the current file
    fixi,        \* index in fixes of the fix being applied
    iter,        \* applications of fixes[fixi] to the current file so far
    appliedLog,  \* names of the fixes applied to the current file, in order
    touched,     \* some application to the current file reported changed = true
    modified,    \* files whose bytes on disk differ from those before the run
    emitted,     \* files for which handleFix returned nil, in order
    stdout,      \* the header lines handleFix printed: the files they name
    body,        \* the data of the last os.Stdout.Write of handleFix
    tmpdir,      \* the temporary directory: a set of <<name, bytes>>
    exitCode,    \* the argument of os.Exit, Running before
    stderr       \* the last error message written

vars == <<pc, doDiff, nargs, allFixes, fixes, usageCalled, argi, status, nfiles,
          filei, orig, tree, fixi, iter, appliedLog, modified, emitted, stdout,
          body, touched, tmpdir, exitCode, stderr>>

\* ------------------------------------------------------------- fix units
\* The fix units are opaque to the pipeline (spec 1, 3).  A tree is the number
\* of legacy call sites left in the file, or Unfixable for a file holding a
\* construct the migration rule cannot handle.
Unfixable == 0 - 1
Trees == {Unfixable} \cup (0 .. MaxSites)

\* The fix names in lexicographic order, as byName.Less compares them.
FixNames == <<"logr", "noop", "spin">>
NameSet == {FixNames[i] : i \in 1 .. Len(FixNames)}
Rank(n) == CHOOSE i \in 1 .. Len(FixNames) : FixNames[i] = n

\* byName.Less
Less(a, b) == Rank(a) < Rank(b)

\* Fix.matches-and-rewrite: (tree) -> (tree, changed), or an unrecoverable error.
\*   logr is the migration rule of allFixes, LogrFix(StandardKlogPkg): it
\*        rewrites one legacy call site per application;
\*   noop is the migration rule for a legacy package no file of the run
\*        uses: it never matches;
\*   spin is the unit of the fixed-point termination property (spec 8): it
\*        reports changed = true on every application.
FixApply(name, t) ==
    CASE name = "logr" ->
           IF t = Unfixable THEN [tree |-> t, changed |-> FALSE, err |-> TRUE]
           ELSE IF t > 0 THEN [tree |-> t - 1, changed |-> TRUE, err |-> FALSE]
           ELSE [tree |-> t, changed |-> FALSE, err |-> FALSE]
      [] name = "noop" -> [tree |-> t, changed |-> FALSE, err |-> FALSE]
      [] name = "spin" -> [tree |-> t, changed |-> TRUE, err |-> FALSE]

\* The fix lists the engine is given (spec 6): ordered, the names unique
\* within a run, the logging migration rule among them.  The build of
\* src/main.go holds the first of them, <<"logr">>; the longer lists are there
\* for the properties that speak of several fixes or of a fix that never
\* converges, and only invariants are checked over them.
Injective(s) == \A i, j \in 1 .. Len(s) : s[i] = s[j] => i = j
Shipped == <<"logr">>
Catalogs ==
    {s \in UNION {[1 .. n -> NameSet] : n \in 1 .. Len(FixNames)} :
        Injective(s) /\ \E i \in 1 .. Len(s) : s[i] = Shipped[1]}

IsSorted(s) == \A i, j \in 1 .. Len(s) : i < j => ~Less(s[j], s[i])
SameElements(s, t) ==
    /\ Len(s) = Len(t)
    /\ {s[i] : i \in 1 .. Len(s)} = {t[i] : i \in 1 .. Len(t)}

\* sort.Sort(byName(allFixes))
SortByName(s) == CHOOSE t \in Catalogs : SameElements(s, t) /\ IsSorted(t)

\* ------------------------------------------------------------------ bytes
\* Source bytes: the tree they parse to, whether they are in the canonical
\* (gofmt) layout, and whether the file is whole (not cut short by a failed write).
Bytes == [tree : Trees, canon : BOOLEAN, whole : BOOLEAN]
OrigBytes == {b \in Bytes : b.whole}

Parse(b) == b.tree

\* fixer.GofmtFile: a full regeneration of the text from the tree.
GofmtFile(t) == [tree |-> t, canon |-> TRUE, whole |-> TRUE]

Truncated(b) == [tree |-> b.tree, canon |-> FALSE, whole |-> FALSE]

\* ------------------------------------------------------------ output sink
\* What the environment does to one call of handleFix.
AllEnvs ==
    [read : {"ok", "err"},                       \* readFile
     render : {"ok", "err"},                     \* fixer.GofmtFile
     w1 : {"ok", "createfail", "writefail"},     \* first writeTempFile
     w2 : {"ok", "createfail", "writefail"},     \* second writeTempFile
     run : {"compared", "noexec", "trouble"},    \* the diff utility
     write : {"ok", "openfail", "short"}]        \* ioutil.WriteFile

NoFault == [read |-> "ok", render |-> "ok", w1 |-> "ok", w2 |-> "ok",
            run |-> "compared", write |-> "ok"]

\* handleFix returns at the first fault it meets, so the environments that
\* differ from the faultless one in one place give every outcome.
Envs == {e \in AllEnvs : Cardinality({k \in DOMAIN e : e[k] # NoFault[k]}) <= 1}

NoName == 0
TmpNames(tmp) == {e[1] : e \in tmp}
\* ioutil.TempFile picks a name no file of the directory has.
FreshName(tmp) == CHOOSE n \in 1 .. Cardinality(tmp) + 1 : n \notin TmpNames(tmp)
\* os.Remove
Remove(tmp, name) == {e \in tmp : e[1] # name}
Content(tmp, name) == (CHOOSE e \in tmp : e[1] = name)[2]

\* writeTempFile(dir, prefix, data): outcome is what the file system does.
writeTempFile(tmp, data, outcome) ==
    IF outcome = "createfail"
    THEN [name |-> NoName, err |-> TRUE, tmp |-> tmp]
    ELSE LET name == FreshName(tmp) IN
         IF outcome = "writefail"
         THEN [name |-> NoName, err |-> TRUE,
               tmp |-> Remove(tmp \cup {<<name, Truncated(data)>>}, name)]
         ELSE [name |-> name, err |-> FALSE, tmp |-> tmp \cup {<<name, data>>}]

\* exec.Command("diff", "-u", f1, f2).CombinedOutput(): the body is "empty"
\* (zero bytes), "delta" (a unified diff) or "msg" (the utility's complaint).
RunDiff(tmp, f1, f2, run) ==
    CASE run = "noexec" -> [data |-> "empty", err |-> TRUE]
      [] run = "trouble" -> [data |-> "msg", err |-> TRUE]
      [] run = "compared" ->
           IF Content(tmp, f1) = Content(tmp, f2)
           THEN [data |-> "empty", err |-> FALSE]
           ELSE [data |-> "delta", err |-> TRUE]

\* diff with the first temporary file left behind when the second cannot be written.
diffLeakFirst(b1, b2, tmp, env) ==
    LET r1 == writeTempFile(tmp, b1, env.w1) IN
    IF r1.err THEN [data |-> "empty", err |-> TRUE, tmp |-> r1.tmp]
    ELSE LET r2 == writeTempFile(r1.tmp, b2, env.w2) IN
         IF r2.err THEN [data |-> "empty", err |-> TRUE, tmp |-> r2.tmp]
         ELSE LET out == RunDiff(r2.tmp, r1.name, r2.name, env.run) IN
              [data |-> out.data,
               err |-> IF out.data # "empty" THEN FALSE ELSE out.err,
               tmp |-> Remove(Remove(r2.tmp, r2.name), r1.name)]

\* diff(b1, b2): the deferred os.Remove calls run on every return after the
\* file they name was created.
diff(b1, b2, tmp, env) ==
    LET r1 == writeTempFile(tmp, b1, env.w1) IN
    IF r1.err THEN [data |-> "empty", err |-> TRUE, tmp |-> r1.tmp]
    ELSE LET r2 == writeTempFile(r1.tmp, b2, env.w2) IN
         IF r2.err
         THEN [data |-> "empty", err |-> TRUE, tmp |-> Remove(r2.tmp, r1.name)]
         ELSE LET out == RunDiff(r2.tmp, r1.name, r2.name, env.run) IN
              [data |-> out.data,
               err |-> IF out.data # "empty" THEN FALSE ELSE out.err,
               tmp |-> Remove(Remove(r2.tmp, r2.name), r1.name)]

\* ioutil.WriteFile(name, data, 0)
WriteFile(disk, data, outcome) ==
    CASE outcome = "ok" -> [disk |-> data, err |-> FALSE]
      [] outcome = "openfail" -> [disk |-> disk, err |-> TRUE]
      [] outcome = "short" -> [disk |-> Truncated(data), err |-> TRUE]

\* handleFix that rewrites the file whatever the -diff flag says.
handleFixAlwaysWrites(file, disk, t, dd, tmp, env) ==
    IF env.read = "err"
    THEN [err |-> "read", disk |-> disk, out |-> <<>>, tmp |-> tmp]
    ELSE IF env.render = "err"
    THEN [err |-> "render", disk |-> disk, out |-> <<>>, tmp |-> tmp]
    ELSE LET src == disk
             newSrc == GofmtFile(t)
             w == WriteFile(disk, newSrc, env.write)
         IN [err |-> IF w.err THEN "write" ELSE "none",
             disk |-> w.disk, out |-> <<>>, tmp |-> tmp]

\* handleFix that writes back the bytes it read instead of the rendered ones.
handleFixWritesSrc(file, disk, t, dd, tmp, env) ==
    IF env.read = "err"
    THEN [err |-> "read", disk |-> disk, out |-> <<>>, tmp |-> tmp]
    ELSE IF env.render = "err"
    THEN [err |-> "render", disk |-> disk, out |-> <<>>, tmp |-> tmp]
    ELSE LET src == disk
             newSrc == GofmtFile(t)
         IN IF dd
            THEN LET d == diff(src, newSrc, tmp, env) IN
                 IF d.err
                 THEN [err |-> "computing diff", disk |-> disk, out |-> <<>>,
                       tmp |-> d.tmp]
                 ELSE [err |-> "none", disk |-> disk,
                       out |-> <<[file |-> file, body |-> d.data]>>, tmp |-> d.tmp]
            ELSE LET w == WriteFile(disk, src, env.write) IN
                 [err |-> IF w.err THEN "write" ELSE "none",
                  disk |-> w.disk, out |-> <<>>, tmp |-> tmp]

\* handleFix that diffs the bytes it read against themselves.
handleFixDiffsSrc(file, disk, t, dd, tmp, env) ==
    IF env.read = "err"
    THEN [err |-> "read", disk |-> disk, out |-> <<>>, tmp |-> tmp]
    ELSE IF env.render = "err"
    THEN [err |-> "render", disk |-> disk, out |-> <<>>, tmp |-> tmp]
    ELSE LET src == disk
             newSrc == GofmtFile(t)
         IN IF dd
            THEN LET d == diff(src, src, tmp, env) IN
                 IF d.err
                 THEN [err |-> "computing diff", disk |-> disk, out |-> <<>>,
                       tmp |-> d.tmp]
                 ELSE [err |-> "none", disk |-> disk,
                       out |-> <<[file |-> file, body |-> d.data]>>, tmp |-> d.tmp]
            ELSE LET w == WriteFile(disk, newSrc, env.write) IN
                 [err |-> IF w.err THEN "write" ELSE "none",
                  disk |-> w.disk, out |-> <<>>, tmp |-> tmp]

\* diffFixHandler.handleFix(info): disk is the content of info.Name, t is info.AST.
handleFix(file, disk, t, dd, tmp, env) ==
    IF env.read = "err"
    THEN [err |-> "read", disk |-> disk, out |-> <<>>, tmp |-> tmp]
    ELSE IF env.render = "err"
    THEN [err |-> "render", disk |-> disk, out |-> <<>>, tmp |-> tmp]
    ELSE LET src == disk
             newSrc == GofmtFile(t)
         IN IF dd
            THEN LET d == diff(src, newSrc, tmp, env) IN
                 IF d.err
                 THEN [err |-> "computing diff", disk |-> disk, out |-> <<>>,
                       tmp |-> d.tmp]
                 ELSE [err |-> "none", disk |-> disk,
                       out |-> <<[file |-> file, body |-> d.data]>>, tmp |-> d.tmp]
            ELSE LET w == WriteFile(disk, newSrc, env.write) IN
                 [err |-> IF w.err THEN "write" ELSE "none",
                  disk |-> w.disk, out |-> <<>>, tmp |-> tmp]

\* ------------------------------------------------------------- fix engine
\* One step of the engine on the current file (spec 4.1 step 1): apply
\* fs[i], which has been applied n times to this file already.
EngineStepNoCap(fs, i, n, t) ==
    LET r == FixApply(fs[i], t) IN
    IF r.err THEN [kind |-> "error", tree |-> t, fixi |-> i, iter |-> n]
    ELSE IF r.changed
    THEN [kind |-> "again", tree |-> r.tree, fixi |-> i, iter |-> n + 1]
    ELSE IF i < Len(fs) THEN [kind |-> "next", tree |-> t, fixi |-> i + 1, iter |-> 0]
    ELSE [kind |-> "fixed", tree |-> t, fixi |-> i, iter |-> 0]

EngineStep(fs, i, n, t) ==
    LET r == FixApply(fs[i], t) IN
    IF r.err THEN [kind |-> "error", tree |-> t, fixi |-> i, iter |-> n]
    ELSE IF r.changed
    THEN IF n + 1 >= IterCap
         THEN [kind |-> "cap", tree |-> r.tree, fixi |-> i, iter |-> n + 1]
         ELSE [kind |-> "again", tree |-> r.tree, fixi |-> i, iter |-> n + 1]
    ELSE IF i < Len(fs) THEN [kind |-> "next", tree |-> t, fixi |-> i + 1, iter |-> 0]
    ELSE [kind |-> "fixed", tree |-> t, fixi |-> i, iter |-> 0]

\* ----------------------------------------------------------------- driver
NoErr == [msg |-> "none"]
\* info.Name of the file being fixed: the arguments name different packages
\* and a file belongs to one package, so a file is met once in a run and its
\* bytes on disk are those of before the run (orig) until handleFix is called.
ThisFile == <<argi, filei>>

Init ==
    /\ pc = "start"
    /\ doDiff \in BOOLEAN
    /\ nargs \in 0 .. MaxArgs
    /\ allFixes \in Catalogs
    /\ fixes = <<>>
    /\ usageCalled = FALSE
    /\ argi = 1
    /\ status = [i \in 1 .. nargs |-> "pending"]
    /\ nfiles = 0
    /\ filei = 0
    /\ orig = GofmtFile(0)
    /\ tree = 0
    /\ fixi = 0
    /\ iter = 0
    /\ appliedLog = <<>>
    /\ touched = FALSE
    /\ modified = {}
    /\ emitted = <<>>
    /\ stdout = <<>>
    /\ body = "none"
    /\ tmpdir = {}
    /\ exitCode = Running
    /\ stderr = NoErr

\* os.Exit(code)
Exit(code, msg) ==
    /\ pc' = "exit"
    /\ exitCode' = code
    /\ stderr' = msg

\* usage(): prints the fixes sorted by name (sorting allFixes in place), exits 93.
usage(why) ==
    /\ allFixes' = SortByName(allFixes)
    /\ usageCalled' = TRUE
    /\ Exit(ExitUsage, [msg |-> "usage", why |-> why])
    /\ UNCHANGED <<doDiff, nargs, fixes, argi, status, nfiles, filei, orig, tree,
                   fixi, iter, appliedLog, touched, modified, emitted, stdout, body, tmpdir>>

\* flag.Parse() meets a flag it does not know, or -h: it calls flag.Usage.
FlagError ==
    /\ pc = "start"
    /\ usage("flag")

\* if flag.NArg() == 0 { usage() }
NoArgs ==
    /\ pc = "start"
    /\ nargs = 0
    /\ usage("no paths")

\* os.Getwd() fails.
GetwdFail ==
    /\ pc = "start"
    /\ nargs > 0
    /\ Exit(ExitError, [msg |-> "where are we?"])
    /\ UNCHANGED <<doDiff, nargs, allFixes, fixes, usageCalled, argi, status, nfiles,
                   filei, orig, tree, fixi, iter, appliedLog, touched, modified, emitted,
                   stdout, body, tmpdir>>

\* Fixer{Fixes: allFixes} taking the fixes in name order.
FixerFixesSorted == SortByName(allFixes)

\* Fixes: allFixes, in the Fixer literal.
FixerFixes == allFixes

\* main from os.Getwd to the head of the loop over the arguments.
Setup ==
    /\ pc = "start"
    /\ nargs > 0
    /\ fixes' = FixerFixes
    /\ pc' = "import"
    /\ UNCHANGED <<doDiff, nargs, allFixes, usageCalled, argi, status, nfiles, filei,
                   orig, tree, fixi, iter, appliedLog, touched, modified, emitted, stdout, body,
                   tmpdir, exitCode, stderr>>

\* imp.Import(arg) fails, and the failure is logged but the loop goes on.
ImportFailContinue ==
    /\ pc = "import"
    /\ argi <= nargs
    /\ status' = [status EXCEPT ![argi] = "importfailed"]
    /\ argi' = argi + 1
    /\ stderr' = [msg |-> "unable to import package from argument", path |-> argi]
    /\ UNCHANGED <<pc, doDiff, nargs, allFixes, fixes, usageCalled, nfiles, filei,
                   orig, tree, fixi, iter, appliedLog, touched, modified, emitted, stdout, body,
                   tmpdir, exitCode>>

\* imp.Import(arg) fails: the path is logged and the process exits with 1.
ImportFail ==
    /\ pc = "import"
    /\ argi <= nargs
    /\ status' = [status EXCEPT ![argi] = "importfailed"]
    /\ Exit(ExitError, [msg |-> "unable to import package from argument", path |-> argi])
    /\ UNCHANGED <<doDiff, nargs, allFixes, fixes, usageCalled, argi, nfiles, filei,
                   orig, tree, fixi, iter, appliedLog, touched, modified, emitted, stdout, body,
                   tmpdir>>

\* imp.Import(arg) succeeds; loader.PackageInfoFor(arg) has n files;
\* fixer.FixPackage(pkg) starts.
ImportOK ==
    /\ pc = "import"
    /\ argi <= nargs
    /\ \E n \in 1 .. MaxFiles : nfiles' = n
    /\ filei' = 1
    /\ status' = [status EXCEPT ![argi] = "fixing"]
    /\ pc' = "load"
    /\ UNCHANGED <<doDiff, nargs, allFixes, fixes, usageCalled, argi, orig, tree,
                   fixi, iter, appliedLog, touched, modified, emitted, stdout, body, tmpdir,
                   exitCode, stderr>>

\* The loop over the arguments ends: os.Exit(0).
ExitSuccess ==
    /\ pc = "import"
    /\ argi > nargs
    /\ Exit(ExitOK, NoErr)
    /\ UNCHANGED <<doDiff, nargs, allFixes, fixes, usageCalled, argi, status, nfiles,
                   filei, orig, tree, fixi, iter, appliedLog, touched, modified, emitted,
                   stdout, body, tmpdir>>

\* FixPackage returns an error: "aborting package", exit code 1.
AbortPackageAsError(err) ==
    /\ status' = [status EXCEPT ![argi] = "fixfailed"]
    /\ Exit(ExitError, [msg |-> "aborting package", path |-> argi, err |-> err])

\* FixPackage returns an error: main prints "aborting package %q: %v" and exits with 5.
AbortPackage(err) ==
    /\ status' = [status EXCEPT ![argi] = "fixfailed"]
    /\ Exit(ExitAbort, [msg |-> "aborting package", path |-> argi, err |-> err])

\* The engine turns to the next file of the package: its bytes and its tree,
\* as the loader parsed them.
LoadFile ==
    /\ pc = "load"
    /\ \E b \in OrigBytes : orig' = b /\ tree' = Parse(b)
    /\ fixi' = 1
    /\ iter' = 0
    /\ appliedLog' = <<>>
    /\ touched' = FALSE
    /\ pc' = "apply"
    /\ UNCHANGED <<doDiff, nargs, allFixes, fixes, usageCalled, argi, status, nfiles,
                   filei, modified, emitted, stdout, body, tmpdir, exitCode, stderr>>

Log(name) ==
    IF appliedLog # <<>> /\ appliedLog[Len(appliedLog)] = name
    THEN appliedLog ELSE Append(appliedLog, name)

\* The engine applies fixes[fixi] once more; it changed the tree, or it did
\* not and the engine goes to the next fix or to the output handler.
ApplyFix ==
    /\ pc = "apply"
    /\ LET s == EngineStep(fixes, fixi, iter, tree) IN
       /\ s.kind \in {"again", "next", "fixed"}
       /\ tree' = s.tree
       /\ fixi' = s.fixi
       /\ iter' = s.iter
       /\ pc' = IF s.kind = "fixed" THEN "emit" ELSE "apply"
    /\ appliedLog' = Log(fixes[fixi])
    /\ touched' = (touched \/ FixApply(fixes[fixi], tree).changed)
    /\ UNCHANGED <<doDiff, nargs, allFixes, fixes, usageCalled, argi, status, nfiles,
                   filei, orig, modified, emitted, stdout, body, tmpdir, exitCode, stderr>>

\* The fix raises an unrecoverable error: Failure{file, fix, cause}.
ApplyFixError ==
    /\ pc = "apply"
    /\ EngineStep(fixes, fixi, iter, tree).kind = "error"
    /\ appliedLog' = Log(fixes[fixi])
    /\ AbortPackage([file |-> ThisFile, fix |-> fixes[fixi], cause |-> "unfixable"])
    /\ UNCHANGED <<touched, doDiff, nargs, allFixes, fixes, usageCalled, argi, nfiles, filei,
                   orig, tree, fixi, iter, modified, emitted, stdout, body, tmpdir>>

\* The fix still reports a change at the iteration cap.
ApplyFixCap ==
    /\ pc = "apply"
    /\ LET s == EngineStep(fixes, fixi, iter, tree) IN
       /\ s.kind = "cap"
       /\ tree' = s.tree
       /\ iter' = s.iter
    /\ appliedLog' = Log(fixes[fixi])
    /\ touched' = TRUE
    /\ AbortPackage([file |-> ThisFile, fix |-> fixes[fixi],
                     cause |-> "IterationCapExceeded"])
    /\ UNCHANGED <<doDiff, nargs, allFixes, fixes, usageCalled, argi, nfiles, filei,
                   orig, fixi, modified, emitted, stdout, body, tmpdir>>

Touch(set, file, disk) == IF disk # orig THEN set \cup {file} ELSE set \ {file}

\* Fixer.HandleFix on the fixed file returns nil: the engine goes to the next
\* file, or FixPackage returns nil and main goes to the next argument.
HandleFixOK ==
    /\ pc = "emit"
    /\ \E env \in Envs :
         LET h == handleFix(ThisFile, orig, tree, doDiff, tmpdir, env) IN
         /\ h.err = "none"
         /\ modified' = Touch(modified, ThisFile, h.disk)
         /\ stdout' = stdout \o [k \in 1 .. Len(h.out) |-> h.out[k].file]
         /\ body' = IF h.out # <<>> THEN h.out[Len(h.out)].body ELSE body
         /\ tmpdir' = h.tmp
    /\ emitted' = Append(emitted, ThisFile)
    /\ IF filei < nfiles
       THEN /\ filei' = filei + 1
            /\ pc' = "load"
            /\ UNCHANGED <<argi, status>>
       ELSE /\ status' = [status EXCEPT ![argi] = "done"]
            /\ argi' = argi + 1
            /\ pc' = "import"
            /\ UNCHANGED filei
    /\ UNCHANGED <<doDiff, nargs, allFixes, fixes, usageCalled, nfiles, orig, tree,
                   fixi, iter, appliedLog, touched, exitCode, stderr>>

\* Fixer.HandleFix returns an error: FixPackage fails with it.
HandleFixFail ==
    /\ pc = "emit"
    /\ \E env \in Envs :
         LET h == handleFix(ThisFile, orig, tree, doDiff, tmpdir, env) IN
         /\ h.err # "none"
         /\ modified' = Touch(modified, ThisFile, h.disk)
         /\ stdout' = stdout \o [k \in 1 .. Len(h.out) |-> h.out[k].file]
         /\ body' = IF h.out # <<>> THEN h.out[Len(h.out)].body ELSE body
         /\ tmpdir' = h.tmp
         /\ AbortPackage([file |-> ThisFile, fix |-> "none", cause |-> h.err])
    /\ UNCHANGED <<doDiff, nargs, allFixes, fixes, usageCalled, argi, nfiles, filei,
                   orig, tree, fixi, iter, appliedLog, touched, emitted>>

Next ==
    \/ FlagError
    \/ NoArgs
    \/ GetwdFail
    \/ Setup
    \/ ImportFail
    \/ ImportOK
    \/ ExitSuccess
    \/ LoadFile
    \/ ApplyFix
    \/ ApplyFixError
    \/ ApplyFixCap
    \/ HandleFixOK
    \/ HandleFixFail

Spec == Init /\ [][Next]_vars

\* ------------------------------------------------------------- properties
Args == 1 .. nargs
Exited == pc = "exit"
Aborted == Exited /\ stderr.msg = "aborting package"
ImportFailedAt(i) == i \in Args /\ status[i] = "importfailed"
FixFailedAt(i) == i \in Args /\ status[i] = "fixfailed"
AllDone == nargs > 0 /\ \A i \in Args : status[i] = "done"
Before(f, g) == f[1] < g[1] \/ (f[1] = g[1] /\ f[2] < g[2])
Range(s) == {s[k] : k \in 1 .. Len(s)}
\* handleFix has just returned nil for the file whose bytes and tree are
\* still in orig and tree.
JustEmitted == emitted # <<>> /\ pc \in {"load", "import"}

\* C1: the exit code follows from the outcome that ended the run: 93 when no
\* path argument is given (usage was printed), 1 when an import failed, 5 when
\* FixPackage failed, and 0 exactly when every argument was imported and fixed;
\* no code is set before the process exits.
C1_ExitCodeByOutcome ==
    /\ ~Exited => exitCode = Running
    /\ Exited =>
         /\ exitCode \in {ExitUsage, ExitError, ExitAbort, ExitOK}
         /\ nargs = 0 => (exitCode = ExitUsage /\ usageCalled /\ stderr.msg = "usage")
         /\ (\E i \in Args : ImportFailedAt(i)) => exitCode = ExitError
         /\ (\E i \in Args : FixFailedAt(i)) => exitCode = ExitAbort
         /\ exitCode = ExitOK <=> (AllDone /\ ~usageCalled /\ stderr = NoErr)

\* the second argument's package fails to be fixed after the first was done
C1_Witness ==
    /\ Exited /\ exitCode = ExitAbort
    /\ nargs = 2 /\ status[1] = "done" /\ FixFailedAt(2)

\* C2: arguments are started in command-line order, each only after every
\* earlier one is done; files are emitted in that order; a failure ends the
\* run, with every later argument never started and nothing of it emitted.
C2_SequentialAndTerminal ==
    /\ \A j \in Args : status[j] # "pending" => \A i \in 1 .. j - 1 : status[i] = "done"
    /\ \A i \in Args :
         (ImportFailedAt(i) \/ FixFailedAt(i)) =>
            /\ Exited
            /\ \A j \in Args : j > i => status[j] = "pending"
            /\ \A f \in Range(emitted) \cup Range(stdout) \cup modified : f[1] <= i
    /\ \A k, l \in 1 .. Len(emitted) : k < l => Before(emitted[k], emitted[l])
    /\ \A f \in Range(emitted) \cup Range(stdout) \cup modified :
         f[1] \in Args /\ status[f[1]] # "pending"
    /\ Exited => ~ENABLED Next

\* the first of two arguments fails to import; the second stays untouched
C2_Witness ==
    /\ Exited /\ nargs = 2
    /\ ImportFailedAt(1) /\ status[2] = "pending"

\* C3: with -diff no file's bytes on disk ever differ from those before the
\* run, whether handleFix returned nil or failed at reading, rendering or diffing.
C3_DiffModePure == doDiff => modified = {}

\* with -diff, a fix changed a file, its diff was printed, and the run then
\* failed computing the diff of a later file
C3_Witness ==
    /\ doDiff /\ Aborted /\ stderr.err.cause = "computing diff"
    /\ stdout # <<>> /\ body = "delta"

\* C4: no temporary file is left once diff has returned, on any of its
\* returns, and writeTempFile leaves no file behind when it returns an error.
C4_TempFilesRemoved ==
    /\ tmpdir = {}
    /\ \A b \in {orig, GofmtFile(tree)} : \A o \in {"ok", "createfail", "writefail"} :
         LET r == writeTempFile(tmpdir, b, o) IN
         /\ r.err => r.tmp = tmpdir
         /\ ~r.err => r.tmp = tmpdir \cup {<<r.name, b>>}
    /\ pc = "emit" =>
         \A e \in Envs : diff(orig, GofmtFile(tree), tmpdir, e).tmp = tmpdir

\* with -diff, handleFix failed in diff
C4_Witness == doDiff /\ Aborted /\ stderr.err.cause = "computing diff"

\* C5: the fixes are applied to a file in the order of allFixes as the
\* program holds it when the engine is built; usage's sort by name never
\* comes before an application: once usage ran nothing was or is applied.
C5_ApplicationOrder ==
    /\ usageCalled => (Exited /\ fixes = <<>> /\ appliedLog = <<>> /\ emitted = <<>>)
    /\ ~usageCalled =>
         /\ Len(appliedLog) <= Len(allFixes)
         /\ appliedLog = SubSeq(allFixes, 1, Len(appliedLog))
         /\ pc = "emit" => appliedLog = allFixes

\* two fixes were applied in an order that is not the order of their names
C5_Witness == pc = "emit" /\ Len(appliedLog) = 2 /\ ~IsSorted(appliedLog)

C7_Bounded ==
    /\ iter <= IterCap
    /\ pc = "apply" => iter < IterCap
    /\ (pc = "apply" /\ fixes[fixi] = "spin") =>
          EngineStep(fixes, fixi, iter, tree).kind \in {"again", "cap"}
    /\ (Aborted /\ stderr.err.cause = "IterationCapExceeded") =>
          (exitCode = ExitAbort /\ iter = IterCap /\ touched)
    /\ (Exited /\ iter = IterCap) =>
          (Aborted /\ stderr.err.cause = "IterationCapExceeded")

\* Every step of the loop moves on: one more application of the same fix
\* (counted by iter, which the cap bounds), the next fix, or out of the loop.
C7_Progress ==
    pc = "apply" =>
        \/ pc' = "apply" /\ fixi' = fixi /\ iter' = iter + 1 /\ iter' < IterCap
        \/ pc' = "apply" /\ fixi' = fixi + 1 /\ fixi' <= Len(fixes) /\ iter' = 0
        \/ pc' \in {"emit", "exit"}

\* C7: the re-application loop ends: a fix is applied at most IterCap times
\* to a file and every step of the loop moves on; the engine reports
\* IterationCapExceeded (exit code 5) exactly when the IterCap-th application
\* still reports a change, so a fix that reports a change on every
\* application always ends there and a fix that stops reporting changes
\* earlier never does; the run cannot stop anywhere but at os.Exit.
C7_FixedPointTerminates ==
    /\ [](C7_Bounded /\ (~Exited => ENABLED Next))
    /\ [][C7_Progress]_vars

\* the fix that always reports a change was stopped at the cap
C7_Witness ==
    /\ Aborted /\ stderr.err.cause = "IterationCapExceeded"
    /\ stderr.err.fix = "spin" /\ exitCode = ExitAbort

\* C8 as stated: when an argument does not resolve the run exits with 1
\* naming the path and no file is modified by the run.
C8_ImportFailureModifiesNothing ==
    \A i \in Args : ImportFailedAt(i) =>
        /\ Exited /\ exitCode = ExitError
        /\ stderr.msg = "unable to import package from argument" /\ stderr.path = i
        /\ modified = {}

\* C8 amended: when an argument does not resolve the run exits with 1 naming
\* the path, and no file of that argument or of a later one is modified; no
\* file at all with -diff or when it is the first argument.  Files of earlier
\* arguments rewritten in Write mode stay rewritten.
C8_ImportFailureModifiesNoLaterFile ==
    \A i \in Args : ImportFailedAt(i) =>
        /\ Exited /\ exitCode = ExitError
        /\ stderr.msg = "unable to import package from argument" /\ stderr.path = i
        /\ \A f \in modified : f[1] < i
        /\ (doDiff \/ i = 1) => modified = {}

\* the second argument does not resolve after a file of the first was rewritten
C8_Witness == ImportFailedAt(2) /\ modified # {} /\ exitCode = ExitError

\* What one step of the run does to the files emitted so far.
C9_Step ==
    /\ modified \subseteq modified'
    /\ Len(emitted) <= Len(emitted') /\ emitted = SubSeq(emitted', 1, Len(emitted))
    /\ Len(stdout) <= Len(stdout') /\ stdout = SubSeq(stdout', 1, Len(stdout))
    /\ Len(emitted') > Len(emitted) =>
         /\ emitted' = Append(emitted, ThisFile)
         /\ doDiff => stdout' = Append(stdout, ThisFile)
         /\ ~doDiff => (ThisFile \in modified' <=> GofmtFile(tree) # orig)

C9_State ==
    Aborted =>
        /\ exitCode = ExitAbort /\ FixFailedAt(argi)
        /\ stderr.path = argi /\ stderr.err.file = ThisFile
        /\ \A k \in 1 .. filei - 1 :
             /\ <<argi, k>> \in Range(emitted)
             /\ doDiff => <<argi, k>> \in Range(stdout)
        /\ \A f \in Range(emitted) \cup Range(stdout) : Before(f, ThisFile)
        /\ \A f \in modified : Before(f, ThisFile) \/ f = ThisFile

\* C9: when fixing a file of a package fails, every earlier file of the
\* package has been emitted already (rewritten with its rendered bytes in Write
\* mode, printed as a diff with -diff), no emission is ever undone, no later
\* file is fixed or emitted, and the run exits with 5 naming the failing file.
C9_PartialProgressKept == []C9_State /\ [][C9_Step]_vars

\* Write mode: the first file of a package was rewritten, then the second
\* held a construct the fix cannot handle
C9_Witness ==
    /\ Aborted /\ ~doDiff /\ filei = 2
    /\ stderr.err.cause = "unfixable"
    /\ <<argi, 1>> \in modified

\* C10 as stated: with -diff, a file no fix changed gets a body of zero bytes.
C10_UnchangedFileEmptyDiff ==
    (doDiff /\ JustEmitted /\ ~touched) => body = "empty"

\* C10 amended: with -diff, for a file no fix changed and for which handleFix
\* returns nil, the header naming the file is printed, and the body has zero
\* bytes if the file's bytes were already in canonical layout and the diff
\* utility compared the two files; a file not in canonical layout gets a
\* body that is not empty although no fix changed it.
C10_UnchangedFileDiff ==
    (doDiff /\ JustEmitted /\ ~touched) =>
        /\ stdout[Len(stdout)] = emitted[Len(emitted)]
        /\ (orig.canon /\ body # "msg") => body = "empty"
        /\ ~orig.canon => body \in {"delta", "msg"}

\* with -diff, an untouched file in canonical layout was emitted with an empty body
C10_Witness ==
    /\ doDiff /\ JustEmitted /\ ~touched
    /\ orig.canon /\ body = "empty"

====
